---- MODULE Spec2Model ----
(***************************************************************************)
(* gdrive-timestamp-updater (src/main.py): the run of main() as a state    *)
(* machine.  One step is one remote request (files().update, files().list) *)
(* together with the local code that follows it up to the next request.    *)
(* The remote Drive is the function `tree` (folder -> listing order of its *)
(* children); the service decides the outcome of every request.            *)
(***************************************************************************)
EXTENDS Integers, Sequences, FiniteSets, TLC

\* ------------------------------------------------------------------ bounds
\* Largest total number of child links of a remote object graph.
MaxLinks == 3
\* The same for the runs started from every command line (CliSpec).
MaxCliLinks == 2

\* ------------------------------------------------------- program constants
DEFAULT_RETRIES == 5
FOLDER_MIME == "application/vnd.google-apps.folder"
backoff_base == 1
\* The HTTP statuses retryable_update retries on (main.py:122).
Transient == {429, 500, 503}

\* ------------------------------------------------------------ remote world
\* The root folder id given on the command line, and the other objects.
Root == "R"
Folders == {"R", "folderA", "folderB"}
Files == {"file1", "file2"}
Objects == Folders \cup Files
\* The mimeType the service reports for an object.
MimeType(o) == IF o \in Folders THEN FOLDER_MIME ELSE "text/plain"

\* Statuses of a failed request other than the retried ones; 0 is a response
\* whose status does not convert to an int (status stays None).
OtherStatuses == {0, 403, 502}
\* A time in seconds as a double: ms / 1000 - below * 2^-53.
NoSleep == [ms |-> 0, below |-> 0]
\* random.random(): a multiple of 2^-53 in [0, 1).  0, 0.5, and the two
\* largest values it returns, 1 - 2^-53 and 1 - 2 * 2^-53.
Jitters ==
  {[ms |-> 0, below |-> 0], [ms |-> 500, below |-> 0],
   [ms |-> 1000, below |-> 1], [ms |-> 1000, below |-> 2]}
\* The double nearest to base + jitter (round half to even), base a power of
\* two of seconds: the doubles of [base, 2 * base) are 2 * base * 2^-53 apart,
\* and base + 1 is one of them or the first of the next binade.
FloatAdd(base, jitter) ==
  IF jitter.below = 0
  THEN [ms |-> base * 1000 + jitter.ms, below |-> 0]
  ELSE LET spacing == 2 * base
           q == jitter.below \div spacing
           r == jitter.below % spacing
           k == IF 2 * r < spacing THEN q
                ELSE IF 2 * r > spacing THEN q + 1
                ELSE IF q % 2 = 0 THEN q ELSE q + 1
       IN [ms |-> base * 1000 + jitter.ms, below |-> k * spacing]

\* Listings without repetition, of a given length.
Listings(n) == {s \in [1..n -> Objects] : \A i, j \in 1..n : s[i] = s[j] => i = j}
Range(s) == {s[i] : i \in DOMAIN s}
\* The objects of graph g that child links lead to from the objects in S.
RECURSIVE ReachFrom(_, _)
ReachFrom(g, S) ==
  LET T == S \cup UNION {Range(g[f]) : f \in S \cap Folders}
  IN IF T = S THEN S ELSE ReachFrom(g, T)
\* The graphs over the folders fs with at most k child links in all.
RECURSIVE GraphsOver(_, _)
GraphsOver(fs, k) ==
  IF fs = {} THEN {<<>>}
  ELSE LET f == CHOOSE x \in fs : TRUE
       IN UNION { { (f :> s) @@ g : s \in Listings(n), g \in GraphsOver(fs \ {f}, k - n) } :
                  n \in 0..k }
\* A folder the walk cannot reach has no effect on a run: it is left empty.
Graphs ==
  {g \in GraphsOver(Folders, MaxLinks) :
     \A f \in Folders : g[f] # <<>> => f \in ReachFrom(g, {Root})}

VARIABLES
  tree,            \* remote: folder id -> sequence of child ids, in listing order
  args,            \* parsed command line: recursive, dry_run, modified_time, credentials
  environ,         \* GOOGLE_APPLICATION_CREDENTIALS and whether the path is a file
  pc,              \* "main", "update", "returned", "loop", "list", "exit"
  caller,          \* call site of retryable_update: "root" or "child"
  queue, visited, current_folder,   \* update_folder_and_contents locals
  children, page_token,             \* list_children locals (children is also the caller's)
  pages,           \* list requests made by the current list_children call
  list_status,     \* HTTP status of the last list response (0: none yet, or no HTTP response)
  service,         \* main's service: "none", "failed" (build_service raised) or "built"
  idx,             \* position of the for-loop over children (1-based)
  file_id, attempt, status, sleep_for, resp,  \* retryable_update locals
  sent, nsleeps,   \* requests sent / sleeps taken by the current retryable_update call
  exit_code, error,
  mutated,         \* history: ids of successful update requests, in order
  dry_logged,      \* history: ids of "[dry-run] Would update" lines, in order
  listed,          \* history: ids list_children was called with, in order
  returned,        \* history: ids some list response has returned
  anyFail          \* history: some remote request of the run has failed

vars == <<tree, args, environ, service, pages, list_status, pc, caller, queue, visited, current_folder, children,
          page_token, idx, file_id, attempt, status, sleep_for, resp, sent, nsleeps,
          exit_code, error, mutated, dry_logged, listed, returned, anyFail>>

\* What no step after main's prologue changes.
remoteVars == <<tree, args, environ, service>>
walkVars == <<queue, visited, current_folder, children, page_token, idx, pages, list_status>>
callVars == <<file_id, attempt, status, sleep_for, resp, sent, nsleeps>>
histVars == <<mutated, dry_logged, listed, returned>>

\* ------------------------------------------------------------- validation
\* A timestamp string by its layout: whether the date-time fields parse,
\* whether a fractional part is present, and what follows the seconds.
Timestamps ==
  [fields_ok : BOOLEAN, fraction : BOOLEAN, suffix : {"Z", "+05:00", ""}]
\* datetime.strptime(ts, fmt) does not raise.
Strptime(ts, fmt) ==
  /\ ts.fields_ok
  /\ ts.suffix = "Z"
  /\ ts.fraction = (fmt = "%Y-%m-%dT%H:%M:%S.%fZ")
validate_rfc3339(ts) ==
  \E fmt \in {"%Y-%m-%dT%H:%M:%S.%fZ", "%Y-%m-%dT%H:%M:%SZ"} : Strptime(ts, fmt)

\* args.credentials or os.getenv(...): "" stands for None / unset.
cred_path == IF args.credentials # "" THEN args.credentials
             ELSE environ.GOOGLE_APPLICATION_CREDENTIALS
\* build_service returns a service (the path is a file that loads).
build_service_ok == cred_path # "" /\ cred_path \in environ.files

AllArgs ==
  [recursive : BOOLEAN, dry_run : BOOLEAN, modified_time : Timestamps,
   credentials : {"", "key.json"}]
AllEnviron ==
  [GOOGLE_APPLICATION_CREDENTIALS : {"", "env.json"},
   files : {{}, {"key.json", "env.json"}}]
\* Command lines that pass validation, one per mode.
GoodArgs ==
  {a \in AllArgs : /\ a.modified_time = [fields_ok |-> TRUE, fraction |-> TRUE, suffix |-> "Z"]
                   /\ a.credentials = "key.json"}
GoodEnviron ==
  {e \in AllEnviron : e.GOOGLE_APPLICATION_CREDENTIALS = "" /\ e.files # {}}

\* ------------------------------------------------------------------- init
InitLocals ==
  /\ pc = "main"
  /\ caller = "none"
  /\ queue = <<>> /\ visited = {} /\ current_folder = "none"
  /\ children = <<>> /\ page_token = 0 /\ idx = 0
  /\ pages = 0 /\ list_status = 0 /\ service = "none"
  /\ file_id = "none" /\ attempt = 0 /\ status = 0 /\ sleep_for = NoSleep /\ resp = "none"
  /\ sent = 0 /\ nsleeps = 0
  /\ exit_code = -1 /\ error = "none"
  /\ mutated = <<>> /\ dry_logged = <<>> /\ listed = <<>> /\ returned = {}
  /\ anyFail = FALSE

Init ==
  /\ tree \in Graphs
  /\ args \in GoodArgs
  /\ environ \in GoodEnviron
  /\ InitLocals

\* Every command line and environment, over the smaller graphs.
CliGraphs ==
  {g \in Graphs : Len(g["R"]) + Len(g["folderA"]) + Len(g["folderB"]) <= MaxCliLinks}
CliInit ==
  /\ tree \in CliGraphs
  /\ args \in AllArgs
  /\ environ \in AllEnviron
  /\ InitLocals

\* ------------------------------------------------------------ retryable_update
\* The call retryable_update(service, o, ...) from call site `site`.
CallUpdate(o, site) ==
  /\ pc' = "update"
  /\ caller' = site
  /\ file_id' = o
  /\ attempt' = 0 /\ status' = 0 /\ sleep_for' = NoSleep /\ resp' = "none"
  /\ sent' = 0 /\ nsleeps' = 0

\* Mutant: main's handlers exit with the code of a validation error.
AbortWithCodeTwo(kind) ==
  /\ pc' = "exit"
  /\ exit_code' = 2
  /\ error' = kind

\* An exception leaves update_folder_and_contents and reaches main's handlers.
Abort(kind) ==
  /\ pc' = "exit"
  /\ exit_code' = 1
  /\ error' = kind

\* main.py:100-102
UpdateDryRun ==
  /\ pc = "update"
  /\ args.dry_run
  /\ dry_logged' = Append(dry_logged, file_id)
  /\ resp' = "None"
  /\ pc' = "returned"
  /\ UNCHANGED <<remoteVars, walkVars, caller, file_id, attempt, status, sleep_for, sent,
                 nsleeps, exit_code, error, mutated, listed, returned, anyFail>>

\* Mutant: the dry-run check of main.py:100 is missing.
UpdateSuccessIgnoringDryRun ==
  /\ pc = "update"
  /\ attempt < DEFAULT_RETRIES
  /\ sent' = sent + 1
  /\ mutated' = Append(mutated, file_id)
  /\ resp' = "resp"
  /\ pc' = "returned"
  /\ UNCHANGED <<remoteVars, walkVars, caller, file_id, attempt, status, sleep_for,
                 nsleeps, exit_code, error, dry_logged, listed, returned, anyFail>>

\* Mutant: an id that was updated before is not updated again.
UpdateSuccessOncePerId ==
  /\ pc = "update"
  /\ ~args.dry_run
  /\ attempt < DEFAULT_RETRIES
  /\ IF file_id \in Range(mutated)
     THEN UNCHANGED <<sent, mutated>>
     ELSE /\ sent' = sent + 1
          /\ mutated' = Append(mutated, file_id)
  /\ resp' = "resp"
  /\ pc' = "returned"
  /\ UNCHANGED <<remoteVars, walkVars, caller, file_id, attempt, status, sleep_for,
                 nsleeps, exit_code, error, dry_logged, listed, returned, anyFail>>

\* main.py:105-113, the request succeeds
UpdateSuccess ==
  /\ pc = "update"
  /\ ~args.dry_run
  /\ attempt < DEFAULT_RETRIES
  /\ sent' = sent + 1
  /\ mutated' = Append(mutated, file_id)
  /\ resp' = "resp"
  /\ pc' = "returned"
  /\ UNCHANGED <<remoteVars, walkVars, caller, file_id, attempt, status, sleep_for,
                 nsleeps, exit_code, error, dry_logged, listed, returned, anyFail>>

\* Mutant: a retried failure is followed by the next attempt without a sleep.
UpdateTransientNoSleep ==
  /\ pc = "update"
  /\ ~args.dry_run
  /\ attempt < DEFAULT_RETRIES
  /\ \E s \in Transient : status' = s
  /\ sent' = sent + 1
  /\ attempt' = attempt + 1
  /\ anyFail' = TRUE
  /\ UNCHANGED <<remoteVars, walkVars, histVars, pc, caller, file_id, resp, exit_code, error,
                 sleep_for, nsleeps>>

\* Mutant: the delay grows by backoff_base a retry instead of doubling.
UpdateTransientLinearBackoff ==
  /\ pc = "update"
  /\ ~args.dry_run
  /\ attempt < DEFAULT_RETRIES
  /\ \E s \in Transient, jitter \in Jitters :
       /\ status' = s
       /\ sleep_for' = FloatAdd(backoff_base * (attempt + 1), jitter)
  /\ sent' = sent + 1
  /\ nsleeps' = nsleeps + 1
  /\ attempt' = attempt + 1
  /\ anyFail' = TRUE
  /\ UNCHANGED <<remoteVars, walkVars, histVars, pc, caller, file_id, resp, exit_code, error>>

\* Mutant: the last failed attempt raises at once, without its sleep.
UpdateTransientNoFinalSleep ==
  /\ pc = "update"
  /\ ~args.dry_run
  /\ attempt < DEFAULT_RETRIES
  /\ \E s \in Transient, jitter \in Jitters :
       /\ status' = s
       /\ IF attempt + 1 < DEFAULT_RETRIES
          THEN /\ sleep_for' = FloatAdd(backoff_base * (2 ^ attempt), jitter)
               /\ nsleeps' = nsleeps + 1
          ELSE UNCHANGED <<sleep_for, nsleeps>>
  /\ sent' = sent + 1
  /\ attempt' = attempt + 1
  /\ anyFail' = TRUE
  /\ UNCHANGED <<remoteVars, walkVars, histVars, pc, caller, file_id, resp, exit_code, error>>

\* main.py:114-126, HttpError with a retried status: sleep and continue
UpdateTransient ==
  /\ pc = "update"
  /\ ~args.dry_run
  /\ attempt < DEFAULT_RETRIES
  /\ \E s \in Transient, jitter \in Jitters :
       /\ status' = s
       /\ sleep_for' = FloatAdd(backoff_base * (2 ^ attempt), jitter)
  /\ sent' = sent + 1
  /\ nsleeps' = nsleeps + 1
  /\ attempt' = attempt + 1
  /\ anyFail' = TRUE
  /\ UNCHANGED <<remoteVars, walkVars, histVars, pc, caller, file_id, resp, exit_code, error>>

\* Mutant: every HttpError is retried, whatever its status.
UpdateRetryAnyStatus ==
  /\ pc = "update"
  /\ ~args.dry_run
  /\ attempt < DEFAULT_RETRIES
  /\ \E s \in OtherStatuses, jitter \in Jitters :
       /\ status' = s
       /\ sleep_for' = FloatAdd(backoff_base * (2 ^ attempt), jitter)
  /\ sent' = sent + 1
  /\ nsleeps' = nsleeps + 1
  /\ attempt' = attempt + 1
  /\ anyFail' = TRUE
  /\ UNCHANGED <<remoteVars, walkVars, histVars, pc, caller, file_id, resp, exit_code, error>>

\* main.py:114-129, HttpError with any other status: raise
UpdateNonRetryable ==
  /\ pc = "update"
  /\ ~args.dry_run
  /\ attempt < DEFAULT_RETRIES
  /\ \E s \in OtherStatuses : status' = s
  /\ sent' = sent + 1
  /\ anyFail' = TRUE
  /\ Abort("HttpError")
  /\ UNCHANGED <<remoteVars, walkVars, histVars, caller, file_id, attempt, sleep_for, resp,
                 nsleeps>>

\* main.py:107-112, execute() raises something that is not an HttpError
UpdateUnexpected ==
  /\ pc = "update"
  /\ ~args.dry_run
  /\ attempt < DEFAULT_RETRIES
  /\ sent' = sent + 1
  /\ anyFail' = TRUE
  /\ Abort("Exception")
  /\ UNCHANGED <<remoteVars, walkVars, histVars, caller, file_id, attempt, status, sleep_for,
                 resp, nsleeps>>

\* Mutant: running out of attempts returns None instead of raising.
UpdateExhaustedReturnsNone ==
  /\ pc = "update"
  /\ ~args.dry_run
  /\ attempt >= DEFAULT_RETRIES
  /\ resp' = "None"
  /\ pc' = "returned"
  /\ UNCHANGED <<remoteVars, walkVars, histVars, caller, file_id, attempt, status, sleep_for,
                 sent, nsleeps, exit_code, error, anyFail>>

\* main.py:130, the for loop ran out of attempts
UpdateExhausted ==
  /\ pc = "update"
  /\ ~args.dry_run
  /\ attempt >= DEFAULT_RETRIES
  /\ Abort("RuntimeError")
  /\ UNCHANGED <<remoteVars, walkVars, callVars, histVars, caller, anyFail>>

\* ------------------------------------------------------------------- main
\* Mutant: the folder itself is not updated before the walk.
MainSkippingRootUpdate ==
  /\ pc = "main"
  /\ IF ~validate_rfc3339(args.modified_time) \/ cred_path = ""
     THEN /\ pc' = "exit" /\ exit_code' = 2 /\ error' = "validation"
          /\ UNCHANGED <<caller, callVars, service>>
     ELSE IF ~build_service_ok
     THEN /\ pc' = "exit" /\ exit_code' = 1 /\ error' = "build_service"
          /\ service' = "failed"
          /\ UNCHANGED <<caller, callVars>>
     ELSE /\ pc' = "returned" /\ caller' = "root"
          /\ service' = "built"
          /\ UNCHANGED <<exit_code, error, callVars>>
  /\ UNCHANGED <<tree, args, environ, walkVars, histVars, anyFail>>

\* Mutant: main does not check the credentials path itself (main.py:224-226)
\* and leaves it to build_service.
MainNoCredentialsCheck ==
  /\ pc = "main"
  /\ IF ~validate_rfc3339(args.modified_time)
     THEN /\ pc' = "exit" /\ exit_code' = 2 /\ error' = "validation"
          /\ UNCHANGED <<caller, callVars, service>>
     ELSE IF ~build_service_ok
     THEN /\ pc' = "exit" /\ exit_code' = 1 /\ error' = "build_service"
          /\ service' = "failed"
          /\ UNCHANGED <<caller, callVars>>
     ELSE /\ service' = "built"
          /\ CallUpdate(Root, "root")
          /\ UNCHANGED <<exit_code, error>>
  /\ UNCHANGED <<tree, args, environ, walkVars, histVars, anyFail>>

\* main.py:213-242, up to the call of update_folder_and_contents and its first
\* statement, the update of the folder itself (main.py:157).
Main ==
  /\ pc = "main"
  /\ IF ~validate_rfc3339(args.modified_time) \/ cred_path = ""
     THEN /\ pc' = "exit" /\ exit_code' = 2 /\ error' = "validation"
          /\ UNCHANGED <<caller, callVars, service>>
     ELSE IF ~build_service_ok
     THEN /\ pc' = "exit" /\ exit_code' = 1 /\ error' = "build_service"
          /\ service' = "failed"
          /\ UNCHANGED <<caller, callVars>>
     ELSE /\ service' = "built"
          /\ CallUpdate(Root, "root")
          /\ UNCHANGED <<exit_code, error>>
  /\ UNCHANGED <<tree, args, environ, walkVars, histVars, anyFail>>

\* --------------------------------------------------- update_folder_and_contents
\* main.py:164-169, after the root's update returned
RootUpdated ==
  /\ pc = "returned"
  /\ caller = "root"
  /\ queue' = <<Root>>
  /\ visited' = {}
  /\ pc' = "loop"
  /\ UNCHANGED <<remoteVars, callVars, histVars, caller, current_folder, children,
                 page_token, idx, pages, list_status, exit_code, error, anyFail>>

\* Mutant: the children are walked from the last listed to the first.
ChildAtReversed(cs, i) == cs[Len(cs) + 1 - i]

\* main.py:182-183, the id of the i-th child of the for loop
ChildAt(cs, i) == cs[i]

\* Mutant: a folder child is enqueued whatever the recursion flag.
EnqueueIgnoringRecursive(q, c) ==
  IF MimeType(c) = FOLDER_MIME THEN Append(q, c) ELSE q

\* Mutant: queue.append is missing.
EnqueueNever(q, c) == q

\* Mutant: a folder child is enqueued only when its update returned a response.
EnqueueOnlyIfUpdated(q, c) ==
  IF MimeType(c) = FOLDER_MIME /\ args.recursive /\ resp = "resp" THEN Append(q, c) ELSE q

\* The queue after the child c has been updated (main.py:187-198).
Enqueue(q, c) ==
  IF MimeType(c) = FOLDER_MIME /\ args.recursive THEN Append(q, c) ELSE q

\* main.py:182-208, after a child's update returned: enqueue, next child
ChildUpdated ==
  /\ pc = "returned"
  /\ caller = "child"
  /\ queue' = Enqueue(queue, ChildAt(children, idx))
  /\ IF idx < Len(children)
     THEN /\ idx' = idx + 1
          /\ CallUpdate(ChildAt(children, idx + 1), "child")
     ELSE /\ pc' = "loop"
          /\ UNCHANGED <<idx, caller, callVars>>
  /\ UNCHANGED <<remoteVars, histVars, visited, current_folder, children, page_token,
                 pages, list_status, exit_code, error, anyFail>>

\* Mutant: the visited check of main.py:173 is missing.
DequeueNoVisitedCheck ==
  /\ pc = "loop"
  /\ queue # <<>>
  /\ queue' = Tail(queue)
  /\ current_folder' = Head(queue)
  /\ visited' = visited \cup {Head(queue)}
  /\ pc' = "list"
  /\ children' = <<>>
  /\ page_token' = 0
  /\ pages' = 0
  /\ listed' = Append(listed, Head(queue))
  /\ UNCHANGED <<remoteVars, callVars, caller, idx, list_status, exit_code, error, mutated,
                 dry_logged, returned, anyFail>>

\* Mutant: visited.add of main.py:175 is missing.
DequeueNoMark ==
  /\ pc = "loop"
  /\ queue # <<>>
  /\ queue' = Tail(queue)
  /\ current_folder' = Head(queue)
  /\ IF Head(queue) \in visited
     THEN UNCHANGED <<visited, pc, children, page_token, pages, listed>>
     ELSE /\ visited' = visited
          /\ pc' = "list"
          /\ children' = <<>>
          /\ page_token' = 0
          /\ pages' = 0
          /\ listed' = Append(listed, Head(queue))
  /\ UNCHANGED <<remoteVars, callVars, caller, idx, list_status, exit_code, error, mutated,
                 dry_logged, returned, anyFail>>

\* Mutant: a visited folder is looked at but not taken off the queue.
DequeuePeek ==
  /\ pc = "loop"
  /\ queue # <<>>
  /\ current_folder' = Head(queue)
  /\ IF Head(queue) \in visited
     THEN UNCHANGED <<queue, visited, pc, children, page_token, pages, listed>>
     ELSE /\ queue' = Tail(queue)
          /\ visited' = visited \cup {Head(queue)}
          /\ pc' = "list"
          /\ children' = <<>>
          /\ page_token' = 0
          /\ pages' = 0
          /\ listed' = Append(listed, Head(queue))
  /\ UNCHANGED <<remoteVars, callVars, caller, idx, list_status, exit_code, error, mutated,
                 dry_logged, returned, anyFail>>

\* main.py:171-177, take the next folder; a visited one is skipped
Dequeue ==
  /\ pc = "loop"
  /\ queue # <<>>
  /\ queue' = Tail(queue)
  /\ current_folder' = Head(queue)
  /\ IF Head(queue) \in visited
     THEN UNCHANGED <<visited, pc, children, page_token, pages, listed>>
     ELSE /\ visited' = visited \cup {Head(queue)}
          /\ pc' = "list"
          /\ children' = <<>>
          /\ page_token' = 0
          /\ pages' = 0
          /\ listed' = Append(listed, Head(queue))
  /\ UNCHANGED <<remoteVars, callVars, caller, idx, list_status, exit_code, error, mutated,
                 dry_logged, returned, anyFail>>

\* main.py:171 and 210, the queue is empty: "All done.", main returns
AllDone ==
  /\ pc = "loop"
  /\ queue = <<>>
  /\ pc' = "exit"
  /\ exit_code' = 0
  /\ UNCHANGED <<remoteVars, walkVars, callVars, histVars, caller, error, anyFail>>

\* ------------------------------------------------------------ list_children
\* What the service still has to give for the folder after the token's position.
Remaining(folder, token) ==
  SubSeq(tree[folder], token + 1, Len(tree[folder]))

\* Mutant: list_children returns after its first page, whatever the token.
ListFirstPageOnly ==
  /\ pc = "list"
  /\ LET rest == Remaining(current_folder, page_token)
     IN \E n \in (IF rest = <<>> THEN {0} ELSE 1..Len(rest)) :
          LET page == SubSeq(rest, 1, n)
              all == children \o page
          IN /\ children' = all
             /\ page_token' = 0
             /\ pages' = pages + 1
             /\ list_status' = 200
             /\ returned' = returned \cup {page[i] : i \in 1..n}
             /\ IF all = <<>>
                THEN /\ pc' = "loop"
                     /\ UNCHANGED <<idx, caller, callVars>>
                ELSE /\ idx' = 1
                     /\ CallUpdate(ChildAt(all, 1), "child")
  /\ UNCHANGED <<remoteVars, queue, visited, current_folder, exit_code, error, mutated,
                 dry_logged, listed, anyFail>>

\* main.py:138-149 and 177-186: one list request succeeds.  The service returns
\* the next n children and a continuation token while more remain; without a
\* token list_children returns and the caller starts on the children.
ListPage ==
  /\ pc = "list"
  /\ LET rest == Remaining(current_folder, page_token)
     IN \E n \in (IF rest = <<>> THEN {0} ELSE 1..Len(rest)) :
          LET page == SubSeq(rest, 1, n)
              token == IF n < Len(rest) THEN page_token + n ELSE 0
              all == children \o page
          IN /\ children' = all
             /\ page_token' = token
             /\ pages' = pages + 1
             /\ list_status' = 200
             /\ returned' = returned \cup {page[i] : i \in 1..n}
             /\ IF token # 0
                THEN UNCHANGED <<pc, idx, caller, callVars>>
                ELSE IF all = <<>>
                THEN /\ pc' = "loop"
                     /\ UNCHANGED <<idx, caller, callVars>>
                ELSE /\ idx' = 1
                     /\ CallUpdate(ChildAt(all, 1), "child")
  /\ UNCHANGED <<remoteVars, queue, visited, current_folder, exit_code, error, mutated,
                 dry_logged, listed, anyFail>>

\* Mutant: a list request that fails with a retried status is made again.
ListErrorRetried ==
  /\ pc = "list"
  /\ \/ \E s \in Transient : list_status' = s /\ UNCHANGED <<pc, exit_code, error>>
     \/ \E s \in OtherStatuses : list_status' = s /\ Abort("HttpError")
     \/ list_status' = 0 /\ Abort("Exception")
  /\ pages' = pages + 1
  /\ anyFail' = TRUE
  /\ UNCHANGED <<remoteVars, queue, visited, current_folder, children, page_token, idx,
                 callVars, histVars, caller>>

\* main.py:138-144, execute() raises: nothing in list_children or its caller
\* catches it
ListError ==
  /\ pc = "list"
  /\ \/ \E s \in Transient \cup OtherStatuses : list_status' = s /\ Abort("HttpError")
     \/ list_status' = 0 /\ Abort("Exception")
  /\ pages' = pages + 1
  /\ anyFail' = TRUE
  /\ UNCHANGED <<remoteVars, queue, visited, current_folder, children, page_token, idx,
                 callVars, histVars, caller>>

Next ==
  \/ Main
  \/ UpdateDryRun
  \/ UpdateSuccess
  \/ UpdateTransient
  \/ UpdateNonRetryable
  \/ UpdateUnexpected
  \/ UpdateExhausted
  \/ RootUpdated
  \/ ChildUpdated
  \/ Dequeue
  \/ AllDone
  \/ ListPage
  \/ ListError

Spec == Init /\ [][Next]_vars

\* The scheduling of a single synchronous thread: the program takes its next
\* step whenever it has one.
FairSpec == Spec /\ WF_vars(Next)

\* The runs from every command line and environment.
CliSpec == CliInit /\ [][Next]_vars

\* ================================================================ claims
\* How often o occurs in the sequence s.
Count(o, s) == Cardinality({i \in DOMAIN s : s[i] = o})
\* The objects child links lead to from the root, the root included.
Reachable == ReachFrom(tree, {Root})
\* The objects within k child links of the root.
RECURSIVE Within(_)
Within(k) ==
  IF k = 0 THEN {Root}
  ELSE LET P == Within(k - 1) IN P \cup UNION {Range(tree[f]) : f \in P \cap Folders}
\* The child-link distance of o from the root (beyond every depth if unreachable).
Depth(o) ==
  LET N == Cardinality(Objects)
  IN IF o \in Within(N)
     THEN CHOOSE k \in 0..N : o \in Within(k) /\ \A j \in 0..(k - 1) : o \notin Within(j)
     ELSE N + 1
\* How many folders of the run have been enqueued so far in a recursive run:
\* the root, and every folder child at its update.
FolderUpdates == Cardinality({i \in DOMAIN mutated : mutated[i] \in Folders})
Finished == pc = "exit" /\ exit_code = 0
CleanRun == ~args.dry_run /\ ~anyFail

\* C1: list_children is called at most once on every container, however often
\* it is appended to the queue; a listed container is in visited, visited
\* never loses a member, and a member of visited is never listed again.
C1_ExpandedAtMostOnce ==
  /\ [](\A c \in Objects : Count(c, listed) <= 1)
  /\ [](Range(listed) = visited)
  /\ [][visited \subseteq visited']_vars
  /\ [][listed' # listed => (listed' = Append(listed, Head(queue)) /\ Head(queue) \notin visited)]_vars
\* A finished recursive run over a cycle back to the root in which more
\* folders were enqueued than expanded.
C1_Witness ==
  /\ Finished /\ args.recursive /\ CleanRun
  /\ Root \in returned
  /\ FolderUpdates > Len(listed)

\* C2 (as claimed): in a non-dry-run run without failures every object is
\* mutated at most once.
C2_MutatedAtMostOnce ==
  CleanRun => \A o \in Objects : Count(o, mutated) <= 1
\* How many mutations the walk owes o so far: one per expanded folder whose
\* listing returns o, and one for the root at the start.
Owed(o) ==
  Cardinality({f \in visited : o \in Range(tree[f])}) + (IF o = Root THEN 1 ELSE 0)
\* C2 (amended): in a non-dry-run run without failures every object is mutated
\* at most once per expanded container whose listing returns it, plus once for
\* the root at the start.
C2_MutatedAtMostOncePerListing ==
  CleanRun => \A o \in Objects : Count(o, mutated) <= Owed(o)
\* A finished run that mutated some object twice.
C2_Witness ==
  /\ Finished /\ CleanRun
  /\ \E o \in Objects : Count(o, mutated) = 2 /\ Owed(o) = 2

\* C3: in dry-run mode no update request is sent, no attempt is made and no
\* backoff sleep is taken, whatever the graph and the recursion flag.
C3_DryRunSendsNothing ==
  args.dry_run => /\ sent = 0 /\ attempt = 0 /\ nsleeps = 0 /\ sleep_for = NoSleep
                  /\ mutated = <<>>
                  /\ resp \in {"none", "None"}
\* A finished recursive dry run that reported three intended updates.
C3_Witness ==
  /\ Finished /\ args.dry_run /\ args.recursive
  /\ Len(dry_logged) >= 3 /\ Len(listed) >= 2

\* C4: without recursion only the root is listed, and only the root and the
\* objects its listing returns are mutated.
C4_NonRecursiveStaysAtRoot ==
  ~args.recursive => /\ Range(listed) \subseteq {Root}
                     /\ Len(listed) <= 1
                     /\ Range(mutated) \subseteq {Root} \cup Range(tree[Root])
                     /\ Range(dry_logged) \subseteq {Root} \cup Range(tree[Root])
\* A finished non-recursive run whose root has a folder child with a child of
\* its own that was left alone.
C4_Witness ==
  /\ Finished /\ ~args.recursive /\ CleanRun
  /\ \E f \in Folders \ {Root} :
       /\ Count(f, mutated) = 1
       /\ tree[f] # <<>>
       /\ Range(tree[f]) \cap Range(mutated) = {}

\* C5: when the loop is entered for the first time in a non-dry-run run, the
\* root has been mutated exactly once and nothing else has been mutated.
AtLoopEntry == pc = "loop" /\ listed = <<>>
C5_RootMutatedBeforeLoop ==
  (AtLoopEntry /\ ~args.dry_run) =>
     /\ mutated = <<Root>>
     /\ queue = <<Root>> /\ visited = {} /\ returned = {}
\* The loop is entered without recursion after the root's update was retried.
C5_Witness ==
  /\ AtLoopEntry /\ ~args.dry_run /\ ~args.recursive
  /\ nsleeps = 2 /\ tree[Root] # <<>>
\* The same with recursion.
C5_WitnessRecursive ==
  /\ AtLoopEntry /\ ~args.dry_run /\ args.recursive
  /\ mutated = <<Root>> /\ tree[Root] # <<>>

\* C6: a finished recursive non-dry-run run without failures has mutated the
\* root and every object child links lead to from it.
C6_AllReachableMutated ==
  (Finished /\ args.recursive /\ CleanRun) =>
     \A o \in Reachable : Count(o, mutated) >= 1
\* Such a run over a chain three links deep.
C6_Witness ==
  /\ Finished /\ args.recursive /\ CleanRun
  /\ \E o \in Reachable : Depth(o) = 3
  /\ Len(mutated) = 4

\* The scenario of the specification: R holds folderA and file1, folderA holds
\* file2.
Scenario ==
  [f \in Folders |-> CASE f = "R" -> <<"folderA", "file1">>
                       [] f = "folderA" -> <<"file2">>
                       [] OTHER -> <<>>]
ScenarioOrder ==
  (tree = Scenario /\ Finished /\ args.recursive /\ CleanRun) =>
     mutated = <<"R", "folderA", "file1", "file2">>
\* The step is a successful update of file_id in a recursive run without
\* failures.
MutationStep == args.recursive /\ ~anyFail /\ mutated' = Append(mutated, file_id)
NothingDeeperReturned == \A x \in returned : Depth(x) <= Depth(file_id)
\* C7 (as claimed): every mutation of an object at depth d happens before any
\* object deeper than d has been returned by a list call; the scenario's
\* mutation order is R, folderA, file1, file2.
C7_EveryMutationBreadthFirst ==
  /\ [][MutationStep => NothingDeeperReturned]_vars
  /\ []ScenarioOrder
\* C7 (amended): the first mutation of an object at depth d happens before any
\* object deeper than d has been returned by a list call; the scenario's
\* mutation order is R, folderA, file1, file2.
C7_FirstMutationBreadthFirst ==
  /\ [][(MutationStep /\ Count(file_id, mutated) = 0) => NothingDeeperReturned]_vars
  /\ [](ScenarioOrder)
\* The scenario has run to its end.
C7_Witness ==
  /\ tree = Scenario /\ Finished /\ args.recursive /\ CleanRun
  /\ mutated = <<"R", "folderA", "file1", "file2">>

Exhausted ==
  pc = "update" /\ ~args.dry_run /\ attempt >= DEFAULT_RETRIES
\* C10: when every attempt of a call has failed with a retried status, the call
\* raises and the run ends with exit code 1: no further update or list request
\* is made, and the run does not end in success.
C10_ExhaustionAborts ==
  /\ [](Exhausted => (sent = DEFAULT_RETRIES /\ status \in Transient))
  /\ [][Exhausted => /\ pc' = "exit" /\ exit_code' = 1 /\ error' = "RuntimeError"
                     /\ UNCHANGED <<sent, histVars, queue>>]_vars
  /\ [](pc = "exit" => ~ENABLED Next)
\* The run ended by exhaustion on a child, with a folder left on the queue and
\* a child left to update.
C10_Witness ==
  /\ pc = "exit" /\ error = "RuntimeError" /\ exit_code = 1
  /\ sent = DEFAULT_RETRIES /\ caller = "child"
  /\ queue # <<>> /\ idx < Len(children)

\* The current retryable_update call has returned the service's response.
ReturnedResponse == pc = "returned" /\ resp = "resp"
\* C11: a call whose first k attempts fail with a retried status and whose
\* attempt k+1 succeeds has slept k times, sent k+1 requests and returns the
\* response, the object being mutated once by it; k is below DEFAULT_RETRIES.
C11_SleepsBeforeSuccess ==
  /\ [](ReturnedResponse => /\ attempt < DEFAULT_RETRIES
                            /\ nsleeps = attempt
                            /\ sent = attempt + 1
                            /\ mutated # <<>> /\ mutated[Len(mutated)] = file_id)
  /\ [][(pc = "update" /\ attempt' = attempt + 1) =>
          (status' \in Transient /\ nsleeps' = nsleeps + 1 /\ sent' = sent + 1
           /\ pc' = "update" /\ mutated' = mutated)]_vars
\* Two failures with a retried status, then success: two sleeps, three requests.
C11_Witness ==
  /\ ReturnedResponse
  /\ attempt = 2 /\ nsleeps = 2 /\ sent = 3 /\ status = 429
  /\ mutated = <<Root, file_id>>

\* The run has ended: the program takes no further step.
Stopped == pc = "exit" => ~ENABLED Next
\* The step is an update request that does not succeed and leaves the call
\* with a last status that is not a retried one.
NonRetryableFailure ==
  /\ pc = "update" /\ sent' = sent + 1 /\ mutated' = mutated
  /\ status' \notin Transient
C12_WitnessThirdAttempt ==
  /\ pc = "exit" /\ error = "HttpError" /\ exit_code = 1
  /\ status = 403 /\ sent = 3 /\ nsleeps = 2

\* Comparisons of a time with a whole number n of seconds.
AtLeastSeconds(x, n) == x.ms > n * 1000 \/ (x.ms = n * 1000 /\ x.below = 0)
BelowSeconds(x, n) == x.ms < n * 1000 \/ (x.ms = n * 1000 /\ x.below > 0)
WholeSeconds(x) ==
  IF x.below > 0 /\ x.ms % 1000 = 0 THEN (x.ms \div 1000) - 1 ELSE x.ms \div 1000
\* The step takes a backoff sleep.
SleepStep == nsleeps' = nsleeps + 1 /\ attempt' = attempt + 1
\* C13 (as claimed): the sleep after the failed 0-indexed attempt i lasts at
\* least backoff_base * 2^i and less than backoff_base * 2^i + 1 seconds; its
\* whole-second part is 2^i and doubles from one attempt to the next.
C13_BackoffHalfOpen ==
  [][SleepStep =>
       /\ AtLeastSeconds(sleep_for', backoff_base * (2 ^ attempt))
       /\ BelowSeconds(sleep_for', backoff_base * (2 ^ attempt) + 1)
       /\ WholeSeconds(sleep_for') = 2 ^ attempt
       /\ (nsleeps > 0 => WholeSeconds(sleep_for') = 2 * WholeSeconds(sleep_for))]_vars
\* C13 (amended): the sleep after the failed 0-indexed attempt i lasts at
\* least backoff_base * 2^i and at most backoff_base * 2^i + 1 seconds, the
\* upper end being taken when the floating-point sum rounds up; its
\* whole-second part is 2^i unless the delay is exactly 2^i + 1, and every
\* sleep of a call follows attempt number nsleeps - 1.
C13_BackoffClosed ==
  /\ [][nsleeps' > nsleeps => SleepStep]_vars
  /\ [][SleepStep =>
          /\ AtLeastSeconds(sleep_for', backoff_base * (2 ^ attempt))
          /\ \/ BelowSeconds(sleep_for', backoff_base * (2 ^ attempt) + 1)
             \/ sleep_for' = [ms |-> (backoff_base * (2 ^ attempt) + 1) * 1000, below |-> 0]
          /\ (WholeSeconds(sleep_for') # 2 ^ attempt =>
                sleep_for' = [ms |-> (2 ^ attempt + 1) * 1000, below |-> 0])]_vars
  /\ [](nsleeps > 0 => /\ attempt = nsleeps
                       /\ WholeSeconds(sleep_for) \in {2 ^ (nsleeps - 1), 2 ^ (nsleeps - 1) + 1})
\* The second sleep of a call lasts exactly 3 seconds: the sum has rounded up.
C13_Witness ==
  /\ pc = "update" /\ nsleeps = 2 /\ attempt = 2
  /\ sleep_for = [ms |-> 3000, below |-> 0]
\* A sleep strictly inside the interval: the fourth, 8.5 seconds.
C13_WitnessInside ==
  pc = "update" /\ nsleeps = 4 /\ sleep_for = [ms |-> 8500, below |-> 0]
\* A sleep just under the upper end: the first, 2 - 2 * 2^-53 seconds.
C13_WitnessJustBelow ==
  pc = "update" /\ nsleeps = 1 /\ sleep_for = [ms |-> 2000, below |-> 2]

\* The step is a list request that the service answers with a page.
PageStep == pc = "list" /\ list_status' = 200 /\ pages' = pages + 1
\* The step is the one with which list_children returns to its caller.
ListReturns == pc = "list" /\ pc' \in {"loop", "update"}
\* C14: list_children passes each continuation token to the next list request
\* and returns only after a response without a token; what it returns is the
\* pages of all its requests in order, which is all the service has to give
\* for the folder.
C14_AllPagesAggregated ==
  /\ [][PageStep => /\ \E n \in 0..Len(tree[current_folder]) :
                         /\ children' = children \o SubSeq(tree[current_folder],
                                                           page_token + 1, page_token + n)
                         /\ page_token' \in {0, page_token + n}
                    /\ (page_token' # 0 => pc' = "list")
                    /\ (page_token' = 0 => ListReturns)]_vars
  /\ [][ListReturns => (PageStep /\ page_token' = 0 /\ children' = tree[current_folder])]_vars
  /\ [](pc = "list" => /\ children = SubSeq(tree[current_folder], 1, Len(children))
                       /\ (pages > 0 => page_token = Len(children) /\ page_token # 0)
                       /\ (pages = 0 => page_token = 0 /\ children = <<>>))
\* list_children has returned three children that came in three pages, and the
\* caller is at the first of them.
C14_Witness ==
  /\ pc = "update" /\ caller = "child" /\ idx = 1
  /\ pages = 3 /\ Len(children) = 3 /\ children = tree[current_folder]
  /\ page_token = 0

\* The step is a list request that fails.
ListFailure == pc = "list" /\ pages' = pages + 1 /\ list_status' # 200
\* C15: a list request that fails, with a retried status of retryable_update
\* (429, 500, 503) as with any other, is not made again: the error leaves
\* list_children at once, without a sleep, the children fetched so far are
\* never updated, and the run ends with exit code 1 and no later list or
\* update request.
C15_ListingNotRetried ==
  /\ [][ListFailure => /\ pc' = "exit" /\ exit_code' = 1
                       /\ error' \in {"HttpError", "Exception"}
                       /\ (list_status' # 0 => error' = "HttpError")
                       /\ UNCHANGED <<histVars, callVars, queue, children>>]_vars
  /\ [][pc = "list" => (PageStep \/ ListFailure)]_vars
  /\ []Stopped
\* A 503 on the second page of a listing ended a run: the first page's
\* children were never updated.
C15_Witness ==
  /\ pc = "exit" /\ exit_code = 1 /\ error = "HttpError"
  /\ list_status = 503 /\ pages = 2 /\ page_token # 0
  /\ children # <<>> /\ Range(children) \cap Range(mutated) = {}
  /\ ~args.dry_run

\* The command line fails main's checks: the timestamp does not validate, or
\* neither --credentials nor GOOGLE_APPLICATION_CREDENTIALS gives a path.
InvalidInput ==
  \/ ~(args.modified_time.fields_ok /\ args.modified_time.suffix = "Z")
  \/ (args.credentials = "" /\ environ.GOOGLE_APPLICATION_CREDENTIALS = "")
\* No request has gone out: build_service was not called, no update and no
\* list request was made.
NoNetworkCall ==
  /\ service = "none"
  /\ sent = 0 /\ pages = 0
  /\ mutated = <<>> /\ listed = <<>> /\ returned = {} /\ ~anyFail
\* C16: with a timestamp that fails validation or without a credentials path
\* the process ends with exit code 2, its first and only step, and no network
\* call has been made.
C16_ValidationExitsTwo ==
  /\ [](InvalidInput => /\ pc \in {"main", "exit"}
                        /\ (pc = "main" => ENABLED Main)
                        /\ (pc = "exit" => exit_code = 2 /\ error = "validation")
                        /\ NoNetworkCall
                        /\ dry_logged = <<>>)
  /\ [](exit_code = 2 => InvalidInput)
  /\ []Stopped
\* The run of a valid timestamp without any credentials path has ended.
C16_Witness ==
  /\ pc = "exit" /\ exit_code = 2
  /\ validate_rfc3339(args.modified_time)
  /\ cred_path = "" /\ environ.files # {}
\* The run of a timestamp with an offset has ended.
C16_WitnessOffset ==
  /\ pc = "exit" /\ exit_code = 2
  /\ args.modified_time = [fields_ok |-> TRUE, fraction |-> FALSE, suffix |-> "+05:00"]
  /\ cred_path = "key.json"

\* The run ended by an error that main's handlers caught (main.py:230-232 and
\* 243-248).
EndedByError == error \in {"build_service", "HttpError", "RuntimeError", "Exception"}
\* C17: after validation has passed the process ends with exit code 1 when
\* build_service, an update or a list request ends in an error (not retried,
\* retries exhausted, or unexpected), and with exit code 0 exactly when the
\* walk comes to the empty queue without such an error.
C17_ExitCodes ==
  /\ []((pc = "exit" /\ ~InvalidInput) =>
          /\ exit_code \in {0, 1}
          /\ (exit_code = 1 <=> EndedByError)
          /\ (exit_code = 0 <=> (error = "none" /\ service = "built" /\ queue = <<>>)))
  /\ [][(pc \in {"update", "list"} /\ pc' = "exit") =>
          (exit_code' = 1 /\ error' \in {"HttpError", "RuntimeError", "Exception"})]_vars
  /\ [][(pc = "loop" /\ pc' = "exit") =>
          (queue = <<>> /\ exit_code' = 0 /\ error' = "none")]_vars
  /\ [](pc # "exit" => exit_code = -1 /\ error = "none")
\* A run with credentials from the environment ended in success after a
\* retried update.
C17_Witness ==
  /\ pc = "exit" /\ exit_code = 0 /\ anyFail /\ ~args.dry_run
  /\ args.credentials = "" /\ cred_path = "env.json"
  /\ Len(mutated) = 3
\* Runs that ended with exit code 1: build_service raised; retries ran out.
C17_WitnessBuildService ==
  pc = "exit" /\ exit_code = 1 /\ error = "build_service"
C17_WitnessExhausted ==
  pc = "exit" /\ exit_code = 1 /\ error = "RuntimeError" /\ Len(mutated) = 2

\* The number of child entries the list_children calls of the run have
\* returned to the walk: calls before the current one in full, and of the
\* current one the entries the for loop has come to.
RECURSIVE EntriesOf(_)
EntriesOf(ls) ==
  IF ls = <<>> THEN 0 ELSE Len(tree[Head(ls)]) + EntriesOf(Tail(ls))
EntriesReturned == EntriesOf(listed)
\* The entries of the current listing that the for loop has not updated yet.
EntriesPending ==
  CASE pc = "list" -> Len(tree[current_folder])
    [] pc = "update" /\ caller = "child" -> Len(children) - idx + 1
    [] pc = "returned" /\ caller = "child" -> Len(children) - idx
    [] OTHER -> 0
\* C18: in a non-dry-run run without failures the successful updates number
\* one, for the root, plus the child entries that the run's list_children
\* calls returned: one per listed occurrence, whether or not the id is in
\* visited or was updated before.
C18_OneUpdatePerEntry ==
  /\ []((Finished /\ CleanRun) => Len(mutated) = 1 + EntriesReturned)
  /\ []((CleanRun /\ pc \in {"loop", "list", "update", "returned"} /\ mutated # <<>>) =>
          Len(mutated) = 1 + EntriesReturned - EntriesPending)
  /\ [][(pc = "update" /\ ~args.dry_run /\ pc' = "returned") =>
          mutated' = Append(mutated, file_id)]_vars
\* A finished run in which a folder already in visited was updated again, so
\* that the updates outnumber the ids updated.
C18_Witness ==
  /\ Finished /\ CleanRun /\ args.recursive
  /\ Len(mutated) = 4 /\ Cardinality(Range(mutated)) = 2
  /\ Len(mutated) = 1 + EntriesReturned

\* The step is the last attempt of a call failing with an HttpError of a
\* retried status (an exception of another class leaves status as it was).
FinalFailedAttempt ==
  /\ pc = "update" /\ attempt = DEFAULT_RETRIES - 1
  /\ sent' = sent + 1 /\ status' \in Transient /\ mutated' = mutated
  /\ error' # "Exception"
\* C19: when all DEFAULT_RETRIES attempts of a call fail with a retried
\* status, the call has slept DEFAULT_RETRIES times: the last failed attempt is
\* followed by a sleep of 2^(DEFAULT_RETRIES-1) seconds plus jitter too, the
\* RuntimeError is raised only after that sleep, and no update request is sent
\* after it.
C19_SleepAfterFinalAttempt ==
  /\ [][FinalFailedAttempt =>
          /\ SleepStep /\ nsleeps' = DEFAULT_RETRIES
          /\ AtLeastSeconds(sleep_for', backoff_base * (2 ^ (DEFAULT_RETRIES - 1)))
          /\ ~AtLeastSeconds(sleep_for', backoff_base * (2 ^ (DEFAULT_RETRIES - 1)) + 2)
          /\ pc' = "update" /\ error' = "none" /\ exit_code' = -1]_vars
  /\ [](Exhausted => /\ nsleeps = DEFAULT_RETRIES /\ sent = DEFAULT_RETRIES
                     /\ nsleeps = attempt
                     /\ WholeSeconds(sleep_for) >= 2 ^ (DEFAULT_RETRIES - 1))
  /\ [][Exhausted => /\ error' = "RuntimeError" /\ pc' = "exit"
                     /\ sent' = sent /\ nsleeps' = nsleeps /\ sleep_for' = sleep_for]_vars
  /\ []((pc = "exit" /\ error = "RuntimeError") =>
          (nsleeps = DEFAULT_RETRIES /\ sent = DEFAULT_RETRIES /\ ~ENABLED Next))
\* The run ended by exhaustion after a fifth sleep of 16.5 seconds.
C19_Witness ==
  /\ pc = "exit" /\ error = "RuntimeError"
  /\ nsleeps = DEFAULT_RETRIES /\ sent = DEFAULT_RETRIES
  /\ sleep_for = [ms |-> 16500, below |-> 0]

\* The walk that the object graph, the listing order and the recursion flag
\* determine: from a queue q and a visited set v, the folders listed (ls) and
\* the objects updated (us), in order.
RECURSIVE WalkFrom(_, _, _, _)
WalkFrom(q, v, ls, us) ==
  IF q = <<>> THEN [lists |-> ls, updates |-> us]
  ELSE IF Head(q) \in v THEN WalkFrom(Tail(q), v, ls, us)
  ELSE LET cs == tree[Head(q)]
           sub == IF args.recursive
                  THEN SelectSeq(cs, LAMBDA c : MimeType(c) = FOLDER_MIME)
                  ELSE <<>>
       IN WalkFrom(Tail(q) \o sub, v \cup {Head(q)}, Append(ls, Head(q)), us \o cs)
Walk == WalkFrom(<<Root>>, {}, <<>>, <<Root>>)
IsPrefix(a, b) == Len(a) <= Len(b) /\ a = SubSeq(b, 1, Len(a))
\* The objects the run has reported as to be updated (dry run) or has updated.
Touched == IF args.dry_run THEN dry_logged ELSE mutated
\* C20: over one object graph, listing order and recursion flag, a dry run and
\* a non-dry-run run without failures make the same sequence of list_children
\* calls, and the dry run reports the sequence of objects that the other run
\* mutates: both sequences are the ones the graph and the flag determine, at
\* the end of the run and as prefixes of them on the way, whatever dry_run is.
C20_DryRunMatchesRealRun ==
  /\ []((Finished /\ ~anyFail /\ args.dry_run) =>
          (listed = Walk.lists /\ dry_logged = Walk.updates /\ mutated = <<>>))
  /\ []((Finished /\ ~anyFail /\ ~args.dry_run) =>
          (listed = Walk.lists /\ mutated = Walk.updates /\ dry_logged = <<>>))
  /\ [](~anyFail => (IsPrefix(listed, Walk.lists) /\ IsPrefix(Touched, Walk.updates)))
\* A finished recursive dry run that listed three folders and reported four
\* updates, a folder among them twice.
C20_Witness ==
  /\ Finished /\ args.dry_run /\ args.recursive
  /\ Len(listed) = 3 /\ Len(dry_logged) = 4
  /\ Cardinality(Range(dry_logged)) < Len(dry_logged)
  /\ dry_logged = Walk.updates
\* The non-dry-run run over the same kind of graph.
C20_WitnessRealRun ==
  /\ Finished /\ ~anyFail /\ ~args.dry_run /\ args.recursive
  /\ Len(listed) = 3 /\ Len(mutated) = 4
  /\ Cardinality(Range(mutated)) < Len(mutated)
  /\ mutated = Walk.updates

====
